---- MODULE Spec2Model ----
(***************************************************************************)
(* Model of the turn-based battle engine: the TeamManagerAgent's roster    *)
(* (team_manager_agent.py), the TeamLeadAgent's intel ledger               *)
(* (team_lead_agent.py) and the episode loop (game/game.py).  The three    *)
(* language-model calls (action selection, targeting, skill parsing) and   *)
(* random.random() are inputs drawn from bounded sets.                     *)
(***************************************************************************)
EXTENDS Integers, Sequences, FiniteSets, TLC

VARIABLES
    my_team,            \* TeamManagerAgent.my_team of each side: idx -> hero
    known_enemies,      \* TeamLeadAgent.known_enemies of each side: position -> entry
    difficulty,         \* the --difficulty ratio, in 256ths (256 is 1.0)
    pc,                 \* where the episode (or the manager under test) stands
    active,             \* the side whose turn it is / the manager operated on
    turn_counter,       \* run_game_loop's turn_counter; number of operations in SpecManager
    manager_decision,   \* perform_turn's manager_decision
    attack_payload,     \* perform_turn's attack_payload
    feedback,           \* perform_turn's feedback
    stats,              \* what run_game_loop returned
    episode,            \* run_multi_agent_battle_simulation's i + 1
    results,            \* run_multi_agent_battle_simulation's results
    last                \* the last operation performed: its inputs, the roster before, its result

vars == <<my_team, known_enemies, difficulty, pc, active, turn_counter,
          manager_decision, attack_payload, feedback, stats, episode, results,
          last>>

---------------------------------------------------------------------------
(* Bounds of the model *)

\* operations applied to one manager in SpecManager
MaxOps == 2

\* the small raw damages of a hit in SpecStep are 0 .. MaxRaw
MaxRaw == 10

---------------------------------------------------------------------------
(* Program constants *)

BaseHealth == 400
BaseAttackPower == 200
FirstBuffThreshold == 200
ThresholdStep == 200
DeflectBuff == 40
GlobalDamage == 50
InfightDamage == 75
InfightBuff == 140
SubtleBuff == 20
CounterDamage == 30
CounterHealthLimit == 120
ExplodeDamage == 40
ExplodeBuff == 15
HealAmount == 20
CritHealthLimit == 160

Side == {"Team A", "Team B"}
Other(s) == IF s = "Team A" THEN "Team B" ELSE "Team A"

NONE == "None"

\* None where the response holds a hero id
NoId == -1

\* difficulty_ratio == 1.0, in 256ths
Unscaled == 256

---------------------------------------------------------------------------
(* The hero pool of the team generation prompt.  The engine matches a      *)
(* passive by substring search on the lower-cased description; passive     *)
(* gives, for each hero of the pool, the keywords its description holds.   *)

HeroPassive ==
    [Argonian |-> {"counter"}, Khajit |-> {"counter"}, Redguard |-> {"deflect"},
     Nord |-> {"reduce"}, Breton |-> {"reduce"}, Imperial |-> {"heal:"},
     Onsimer |-> {"heal:"}, Bosmer |-> {"explode"}]

HeroNames == DOMAIN HeroPassive

\* the rosters the team generators return, in dictionary order
TeamData ==
    [s \in Side |->
        IF s = "Team A"
        THEN <<"Redguard", "Argonian", "Bosmer", "Breton">>
        ELSE <<"Imperial", "Nord", "Khajit", "Redguard">>]

TeamSize == 4
Idx == 0 .. (TeamSize - 1)

\* str.lower() on the identities and guesses the model uses
Lower(s) ==
    CASE s \in {"Redguard", "REDGUARD", "redguard"} -> "redguard"
      [] s \in {"Argonian", "argonian"} -> "argonian"
      [] s \in {"Bosmer", "bosmer"} -> "bosmer"
      [] s \in {"Breton", "breton"} -> "breton"
      [] s \in {"Imperial", "imperial"} -> "imperial"
      [] s \in {"Nord", "nord"} -> "nord"
      [] s \in {"Khajit", "khajit"} -> "khajit"
      [] s \in {"Onsimer", "onsimer"} -> "onsimer"
      [] OTHER -> s

---------------------------------------------------------------------------
(* Arithmetic as the interpreter computes it *)

\* floor of the square root of x, known to lie in lo..hi
RECURSIVE IsqrtIn(_, _, _)
IsqrtIn(x, lo, hi) ==
    IF lo = hi THEN lo
    ELSE LET mid == (lo + hi + 1) \div 2
         IN  IF mid * mid <= x THEN IsqrtIn(x, mid, hi) ELSE IsqrtIn(x, lo, mid - 1)
\* 46340 is the largest r with r * r < 2^31
Isqrt(x) == IsqrtIn(x, 0, 46340)

\* int(base * math.sqrt(n / 256)) for a difficulty ratio of n/256; the double
\* result truncates to this floor for the ratios of Difficulties and the
\* bases 200, 400 and 1600
ScaledStat(base, n) == Isqrt(base * base * n) \div 16

\* int(d * 0.30): the double product truncates to floor(3d/10) for 0 <= d <= 5000
Trunc030(d) == (d * 3) \div 10

\* int(d * 0.70): the double product falls just below the integer 7d/10 for
\* these d in 0..2000, and truncates one lower
Low070 ==
    {90, 170, 180, 330, 340, 350, 360, 650, 660, 670, 680, 690, 700, 710, 720,
     730, 1290, 1300, 1310, 1320, 1330, 1340, 1350, 1360, 1370, 1380, 1390,
     1400, 1410, 1420, 1430, 1440, 1450, 1460}
Trunc070(d) == IF d \in Low070 THEN ((d * 7) \div 10) - 1 ELSE (d * 7) \div 10

\* int(ap * 1.4): likewise for these ap in 0..1000
Low140 ==
    {45, 85, 90, 165, 170, 175, 180, 325, 330, 335, 340, 345, 350, 355, 360,
     365, 645, 650, 655, 660, 665, 670, 675, 680, 685, 690, 695, 700, 705,
     710, 715, 720, 725, 730}
Trunc140(ap) == IF ap \in Low140 THEN ((ap * 14) \div 10) - 1 ELSE (ap * 14) \div 10

---------------------------------------------------------------------------
(* TeamManagerAgent: the roster *)

Has(hero, word) == word \in HeroPassive[hero.name]

NewHero(name, health, attack_power) ==
    [name |-> name, health |-> health, attack_power |-> attack_power,
     status |-> "alive", revealed |-> FALSE, subtle_shield |-> FALSE,
     accumulated_damage |-> 0, buff_threshold |-> FirstBuffThreshold]

\* apply_difficulty_scaling followed by initialize_team; only Team B is scaled
initialize_team(s, q) ==
    LET scaled == s = "Team B" /\ q # Unscaled
        health == IF scaled THEN ScaledStat(BaseHealth, q) ELSE BaseHealth
        ap == IF scaled THEN ScaledStat(BaseAttackPower, q) ELSE BaseAttackPower
    IN  [i \in Idx |-> NewHero(TeamData[s][i + 1], health, ap)]

check_death(hero) ==
    IF hero.health <= 0
    THEN [hero EXCEPT !.health = 0, !.status = "dead"]
    ELSE hero

AliveIdx(team) == {i \in DOMAIN team : team[i].status = "alive"}

\* the positions of a set in dictionary (ascending) order
RECURSIVE InOrder(_)
InOrder(S) ==
    IF S = {} THEN <<>>
    ELSE LET m == CHOOSE x \in S : \A y \in S : x <= y
         IN  <<m>> \o InOrder(S \ {m})

Damage(hero, amount) == check_death([hero EXCEPT !.health = @ - amount])

\* update_hero_stats that has the hero's shield take the damage as a hit does
update_hero_stats_shielded(team, target_id, damage_amount) ==
    IF target_id \notin DOMAIN team
    THEN team
    ELSE [team EXCEPT ![target_id] =
            IF @.subtle_shield /\ damage_amount > 0
            THEN Damage([@ EXCEPT !.subtle_shield = FALSE],
                        (damage_amount * 3) \div 10)
            ELSE Damage(@, damage_amount)]

\* update_hero_stats: raw damage and a death check
update_hero_stats(team, target_id, damage_amount) ==
    IF target_id \notin DOMAIN team
    THEN team
    ELSE [team EXCEPT ![target_id] = Damage(@, damage_amount)]

---------------------------------------------------------------------------
(* _execute_internal_skill *)

\* the keywords the lower-cased skill description holds
SkillWords(skill) ==
    CASE skill = "Infight" -> {"infight"}
      [] skill = "Subtle" -> {"subtle"}
      [] OTHER -> {}

\* Infight with the two roles exchanged: the actor is hit, the target gains
Infight_swapped(team, actor_id, target_id) ==
    LET hit == [team EXCEPT ![actor_id] = Damage(@, InfightDamage)]
    IN  [hit EXCEPT ![target_id].attack_power = @ + InfightBuff]

Infight(team, actor_id, target_id) ==
    LET hit == [team EXCEPT ![target_id] = Damage(@, InfightDamage)]
    IN  [hit EXCEPT ![actor_id].attack_power = @ + InfightBuff]

Subtle(team, target_id) ==
    [team EXCEPT ![target_id].subtle_shield = TRUE,
                 ![target_id].attack_power = @ + SubtleBuff]

\* _execute_internal_skill without the test of lines 230-232
execute_internal_skill_self(team, decision) ==
    LET actor_id == decision.selected_hero_id
        words == SkillWords(decision.selected_skill)
        target_id == decision.teammate_target_id
    IN  IF target_id = NoId THEN [team |-> team, raised |-> FALSE]
        ELSE IF target_id \notin DOMAIN team THEN [team |-> team, raised |-> TRUE]
        ELSE IF "infight" \in words
        THEN [team |-> Infight(team, actor_id, target_id), raised |-> FALSE]
        ELSE IF "subtle" \in words
        THEN [team |-> Subtle(team, target_id), raised |-> FALSE]
        ELSE [team |-> team, raised |-> FALSE]

\* the roster after the call, and whether the call raised (KeyError on a
\* teammate_target_id that is no key of my_team)
execute_internal_skill(team, decision) ==
    LET actor_id == decision.selected_hero_id
        words == SkillWords(decision.selected_skill)
        target_id == decision.teammate_target_id
    IN  IF target_id = NoId THEN [team |-> team, raised |-> FALSE]
        ELSE IF target_id \notin DOMAIN team THEN [team |-> team, raised |-> TRUE]
        ELSE IF "infight" \in words
        THEN IF target_id = actor_id
             THEN [team |-> team, raised |-> FALSE]
             ELSE [team |-> Infight(team, actor_id, target_id), raised |-> FALSE]
        ELSE IF "subtle" \in words
        THEN [team |-> Subtle(team, target_id), raised |-> FALSE]
        ELSE [team |-> team, raised |-> FALSE]

---------------------------------------------------------------------------
(* process_incoming_attack *)

\* the breach without line 346: the damage, but the hero stays unrevealed
GlobalBreach_hidden(team, target_pos) ==
    [i \in DOMAIN team |->
        IF team[i].status = "alive" THEN Damage(team[i], GlobalDamage) ELSE team[i]]

\* the breach costing only the guessed hero 50 health
GlobalBreach_target_only(team, target_pos) ==
    [i \in DOMAIN team |->
        IF i # target_pos THEN team[i]
        ELSE LET h == [team[i] EXCEPT !.revealed = TRUE]
             IN  IF h.status = "alive" THEN Damage(h, GlobalDamage) ELSE h]

\* lines 343-353: the first correct guess reveals the hero and costs every
\* alive hero 50 health
GlobalBreach(team, target_pos) ==
    [i \in DOMAIN team |->
        LET h == IF i = target_pos THEN [team[i] EXCEPT !.revealed = TRUE] ELSE team[i]
        IN  IF h.status = "alive" THEN Damage(h, GlobalDamage) ELSE h]

\* LowestHpHero that takes the last minimum in dictionary order
LowestHpHero_last(team) ==
    CHOOSE i \in AliveIdx(team) :
        \A j \in AliveIdx(team) :
            \/ team[i].health < team[j].health
            \/ team[i].health = team[j].health /\ i >= j

\* min(alive_mates, key=health): the first minimum in dictionary order
LowestHpHero(team) ==
    CHOOSE i \in AliveIdx(team) :
        \A j \in AliveIdx(team) :
            \/ team[i].health < team[j].health
            \/ team[i].health = team[j].health /\ i <= j

\* lines 373-394: the targets, in processing order
Targets(team, target_pos, parsed) ==
    IF parsed.is_aoe THEN InOrder(AliveIdx(team))
    ELSE IF parsed.targets_lowest
    THEN IF AliveIdx(team) # {} THEN <<LowestHpHero(team)>> ELSE <<>>
    ELSE IF team[target_pos].status = "alive" THEN <<target_pos>> ELSE <<>>

\* lines 386-390: the boost of a lowest-health hit
RawDamage(team, parsed, attacker_ap) ==
    IF ~parsed.is_aoe /\ parsed.targets_lowest /\ AliveIdx(team) # {}
       /\ team[LowestHpHero(team)].health < CritHealthLimit
       /\ Trunc140(attacker_ap) > parsed.damage_amount
    THEN Trunc140(attacker_ap)
    ELSE parsed.damage_amount

\* line 406: Reduce avoids the hit when random.random() < 0.30
Dodges(hero, dodged) == Has(hero, "reduce") /\ dodged

\* line 410: Deflect redistributes a hit that Reduce did not avoid
Deflects(hero, raw, dodged) ==
    ~Dodges(hero, dodged) /\ Has(hero, "deflect") /\ raw > 0

\* lines 416-422: the alive mates that share a deflected hit, the share of
\* each and the roster after the shares
DeflectMates(team, i, raw, dodged) ==
    IF Deflects(team[i], raw, dodged) THEN AliveIdx(team) \ {i} ELSE {}

DamagePerMate(raw, mates) ==
    IF mates # {} THEN Trunc070(raw) \div Cardinality(mates) ELSE 0

ShareDamage(team, mates, per) ==
    [j \in DOMAIN team |-> IF j \in mates THEN Damage(team[j], per) ELSE team[j]]

\* AfterPassive where a shielded hero keeps the whole hit for its shield
AfterPassive_shield_first(hero, raw, dodged) ==
    IF Dodges(hero, dodged) THEN 0
    ELSE IF Deflects(hero, raw, dodged) /\ ~hero.subtle_shield THEN Trunc030(raw)
    ELSE raw

\* lines 402-424: damage_to_take after Reduce and Deflect
AfterPassive(hero, raw, dodged) ==
    IF Dodges(hero, dodged) THEN 0
    ELSE IF Deflects(hero, raw, dodged) THEN Trunc030(raw)
    ELSE raw

\* lines 426-431: the Subtle shield
UsesShield(hero, d) == hero.subtle_shield /\ d > 0

AfterShield(hero, d) == IF UsesShield(hero, d) THEN Trunc030(d) ELSE d

\* TakeDamage with the shield cleared at line 434, with the damage, instead
\* of line 431
TakeDamage_keeps(hero, shielded, d) ==
    LET h1 == [hero EXCEPT !.subtle_shield = IF shielded /\ d > 0 THEN FALSE ELSE @,
                           !.health = IF d > 0 THEN @ - d ELSE @]
    IN  IF ~Has(hero, "deflect") THEN h1
        ELSE IF hero.accumulated_damage + d >= hero.buff_threshold
        THEN [h1 EXCEPT !.accumulated_damage = @ + d,
                        !.attack_power = @ + DeflectBuff,
                        !.buff_threshold = @ + ThresholdStep]
        ELSE [h1 EXCEPT !.accumulated_damage = @ + d]

\* lines 431-445: the target after the shield is consumed, the damage d is
\* applied and the Deflect tracker has counted it
TakeDamage(hero, shielded, d) ==
    LET h1 == [hero EXCEPT !.subtle_shield = IF shielded THEN FALSE ELSE @,
                           !.health = IF d > 0 THEN @ - d ELSE @]
    IN  IF ~Has(hero, "deflect") THEN h1
        ELSE IF hero.accumulated_damage + d >= hero.buff_threshold
        THEN [h1 EXCEPT !.accumulated_damage = @ + d,
                        !.attack_power = @ + DeflectBuff,
                        !.buff_threshold = @ + ThresholdStep]
        ELSE [h1 EXCEPT !.accumulated_damage = @ + d]

\* Counters for a Counter hero that the hit left with health
Counters_survivor(team, i) ==
    /\ Has(team[i], "counter") /\ team[i].health > 0
    /\ \E j \in AliveIdx(team) \ {i} : team[j].health < CounterHealthLimit

\* lines 448-452: Counter, on the roster after the damage
Counters(team, i) ==
    /\ Has(team[i], "counter")
    /\ \E j \in AliveIdx(team) \ {i} : team[j].health < CounterHealthLimit

\* lines 454-457
Explodes(hero, d) == Has(hero, "explode") /\ d > 0 /\ hero.health > 0

\* lines 454-461
Enrages(hero, d) ==
    Has(hero, "explode") /\ d > 0 /\ hero.health < CounterHealthLimit /\ hero.health > 0

\* Heals without the test of the health left
Heals_dead(hero, d) == Has(hero, "heal:") /\ d > 0

\* line 465
Heals(hero, d) == Has(hero, "heal:") /\ hero.health > 0 /\ d > 0

\* lines 460-469: the enrage buff, the heal and the death check
React(hero, d) ==
    check_death([hero EXCEPT
        !.attack_power = IF Enrages(hero, d) THEN @ + ExplodeBuff ELSE @,
        !.health = IF Heals(hero, d) THEN @ + HealAmount ELSE @])

\* lines 447-469: team is the roster when the step starts, team2 the roster
\* after the shares and the damage, d1 the damage after Reduce and Deflect,
\* d2 the damage taken
StepResult(team, i, raw, dodged, mates, d1, d2, team2) ==
    [team |-> [team2 EXCEPT ![i] = React(@, d2)],
     counter |-> (IF Counters(team2, i) THEN CounterDamage ELSE 0)
                 + (IF Explodes(team2[i], d2) THEN ExplodeDamage ELSE 0),
     rec |-> [idx |-> i, status |-> team[i].status, raw |-> raw,
              dodged |-> Dodges(team[i], dodged), mates |-> mates,
              share |-> DamagePerMate(raw, mates),
              shield |-> UsesShield(team[i], d1), taken |-> d2,
              countered |-> Counters(team2, i),
              exploded |-> Explodes(team2[i], d2),
              enraged |-> Enrages(team2[i], d2),
              healed |-> Heals(team2[i], d2)]]

\* lines 426-445
StepDamage(team, i, raw, dodged, mates, d1) ==
    StepResult(team, i, raw, dodged, mates, d1, AfterShield(team[i], d1),
               [ShareDamage(team, mates, DamagePerMate(raw, mates)) EXCEPT
                    ![i] = TakeDamage(@, UsesShield(team[i], d1),
                                      AfterShield(team[i], d1))])

\* lines 401-469 for one target: the roster after it, the counter damage it
\* adds, and a record of what the step did
PipelineStep(team, i, raw, dodged) ==
    StepDamage(team, i, raw, dodged, DeflectMates(team, i, raw, dodged),
               AfterPassive(team[i], raw, dodged))

RECURSIVE Pipeline(_, _, _, _, _, _)
Pipeline(team, targets, raw, dodge, counter, steps) ==
    IF targets = <<>>
    THEN [team |-> team, counter |-> counter, steps |-> steps]
    ELSE LET r == PipelineStep(team, Head(targets), raw, Head(targets) \in dodge)
         IN  Pipeline(r.team, Tail(targets), raw, dodge,
                      counter + r.counter, Append(steps, r.rec))

NoFeedback == [returned |-> FALSE]

\* lines 473-482
Feedback(team, target_pos, guess_correct, counter) ==
    [returned |-> TRUE,
     guess_correct |-> guess_correct,
     actual_identity |-> IF guess_correct THEN team[target_pos].name ELSE NONE,
     counter_damage |-> counter,
     target_health |-> team[target_pos].health,
     target_status |-> team[target_pos].status,
     all_dead_positions |-> {i \in DOMAIN team : team[i].status = "dead"}]

\* line 341: guessed_id.lower() raises AttributeError when the position is in
\* the roster and the guess is None; no caller up to the command line catches
\* it
AttackRaises(team, attack_info) ==
    /\ attack_info.target_position \in DOMAIN team
    /\ attack_info.guessed_identity = NONE

\* process_incoming_attack that wraps a position outside the roster onto a
\* hero instead of returning None
process_incoming_attack_wrapped(team, attack_info, parsed, dodge) ==
    LET target_pos == attack_info.target_position % TeamSize
        guess_correct ==
            Lower(attack_info.guessed_identity) = Lower(team[target_pos].name)
        breach == guess_correct /\ ~team[target_pos].revealed
        team1 == IF breach THEN GlobalBreach(team, target_pos) ELSE team
    IN  IF ~parsed.ok
        THEN [team |-> team1, feedback |-> NoFeedback, breach |-> breach,
              steps |-> <<>>]
        ELSE
        LET raw == RawDamage(team1, parsed, attack_info.attacker_ap)
            run == Pipeline(team1, Targets(team1, target_pos, parsed), raw,
                            dodge, 0, <<>>)
        IN  [team |-> run.team,
             feedback |-> Feedback(run.team, target_pos, guess_correct, run.counter),
             breach |-> breach, steps |-> run.steps]

\* attack_info: [target_position, guessed_identity, attacker_ap]; parsed: what
\* _parse_skill_with_llm returned (OracleRaised when it failed); dodge: the targets for
\* which random.random() < 0.30.  Gives the roster after the call, the
\* feedback (NoFeedback for a None return), whether the global damage was
\* applied and the steps of the per-target loop.
process_incoming_attack(team, attack_info, parsed, dodge) ==
    LET target_pos == attack_info.target_position
    IN  IF target_pos \notin DOMAIN team
        THEN [team |-> team, feedback |-> NoFeedback, breach |-> FALSE, steps |-> <<>>]
        ELSE
        LET guess_correct ==
                Lower(attack_info.guessed_identity) = Lower(team[target_pos].name)
            breach == guess_correct /\ ~team[target_pos].revealed
            team1 == IF breach THEN GlobalBreach(team, target_pos) ELSE team
        IN  IF ~parsed.ok
            THEN [team |-> team1, feedback |-> NoFeedback, breach |-> breach,
                  steps |-> <<>>]
            ELSE
            LET raw == RawDamage(team1, parsed, attack_info.attacker_ap)
                run == Pipeline(team1, Targets(team1, target_pos, parsed), raw,
                                dodge, 0, <<>>)
            IN  [team |-> run.team,
                 feedback |-> Feedback(run.team, target_pos, guess_correct, run.counter),
                 breach |-> breach, steps |-> run.steps]

---------------------------------------------------------------------------
(* select_hero_for_turn *)

\* an oracle call that raised, or returned nothing usable
OracleRaised == [ok |-> FALSE]

\* select_hero_for_turn without the test of lines 178-180
select_hero_for_turn_no_gate(team, response) ==
    IF AliveIdx(team) = {} THEN [team |-> team, status |-> "DEFEAT"]
    ELSE IF ~response.ok THEN [team |-> team, status |-> "ERROR"]
    ELSE IF response.selected_hero_id = NoId
            \/ response.selected_hero_id \notin DOMAIN team
    THEN [team |-> team, status |-> "None"]
    ELSE IF response.selected_skill = NONE THEN [team |-> team, status |-> "ERROR"]
    ELSE IF response.target_type = "teammate"
    THEN LET r == execute_internal_skill(team, response)
         IN  IF r.raised THEN [team |-> r.team, status |-> "ERROR"]
             ELSE [team |-> r.team, status |-> "INTERNAL ACTION"]
    ELSE [team |-> team, status |-> "ACTIVE"]

\* select_hero_for_turn without the assignment of line 185
select_hero_for_turn_active(team, response) ==
    IF AliveIdx(team) = {} THEN [team |-> team, status |-> "DEFEAT"]
    ELSE IF ~response.ok THEN [team |-> team, status |-> "ERROR"]
    ELSE IF response.selected_hero_id = NoId
            \/ response.selected_hero_id \notin DOMAIN team
    THEN [team |-> team, status |-> "None"]
    ELSE IF response.selected_skill = NONE THEN [team |-> team, status |-> "ERROR"]
    ELSE IF response.target_type = "enemy"
            /\ SkillWords(response.selected_skill) \cap {"infight", "subtle"} # {}
    THEN [team |-> team, status |-> "None"]
    ELSE IF response.target_type = "teammate"
    THEN LET r == execute_internal_skill(team, response)
         IN  IF r.raised THEN [team |-> r.team, status |-> "ERROR"]
             ELSE [team |-> r.team, status |-> "ACTIVE"]
    ELSE [team |-> team, status |-> "ACTIVE"]

\* select_hero_for_turn that signals DEFEAT as soon as one hero is dead
select_hero_for_turn_gives_up(team, response) ==
    IF AliveIdx(team) # DOMAIN team THEN [team |-> team, status |-> "DEFEAT"]
    ELSE IF ~response.ok THEN [team |-> team, status |-> "ERROR"]
    ELSE IF response.selected_hero_id = NoId
            \/ response.selected_hero_id \notin DOMAIN team
    THEN [team |-> team, status |-> "None"]
    ELSE IF response.selected_skill = NONE THEN [team |-> team, status |-> "ERROR"]
    ELSE IF response.target_type = "enemy"
            /\ SkillWords(response.selected_skill) \cap {"infight", "subtle"} # {}
    THEN [team |-> team, status |-> "None"]
    ELSE IF response.target_type = "teammate"
    THEN LET r == execute_internal_skill(team, response)
         IN  IF r.raised THEN [team |-> r.team, status |-> "ERROR"]
             ELSE [team |-> r.team, status |-> "INTERNAL ACTION"]
    ELSE [team |-> team, status |-> "ACTIVE"]

\* response: what the action-selection chain returned (OracleRaised when the
\* call or its JSON parse raised).  Gives the roster after the call and the
\* status of the returned decision ("None" for a None return).
select_hero_for_turn(team, response) ==
    IF AliveIdx(team) = {} THEN [team |-> team, status |-> "DEFEAT"]
    ELSE IF ~response.ok THEN [team |-> team, status |-> "ERROR"]
    ELSE IF response.selected_hero_id = NoId
            \/ response.selected_hero_id \notin DOMAIN team
    THEN [team |-> team, status |-> "None"]
    ELSE IF response.selected_skill = NONE THEN [team |-> team, status |-> "ERROR"]
    ELSE IF response.target_type = "enemy"
            /\ SkillWords(response.selected_skill) \cap {"infight", "subtle"} # {}
    THEN [team |-> team, status |-> "None"]
    ELSE IF response.target_type = "teammate"
    THEN LET r == execute_internal_skill(team, response)
         IN  IF r.raised THEN [team |-> r.team, status |-> "ERROR"]
             ELSE [team |-> r.team, status |-> "INTERNAL ACTION"]
    ELSE [team |-> team, status |-> "ACTIVE"]

---------------------------------------------------------------------------
(* The inputs *)

\* the difficulty ratios, in 256ths: 0, 1/64, 1.0 and 2.0
Difficulties == {0, 4, 256, 512}

\* the ratios Team B's manager is built with in SpecManager: 1/64 and 1.0
ManagerDifficulties == {4, 256}

Skills == {"Infight", "Subtle", "Basic Attack"}

\* the prompt has the oracle set teammate_target_id to null for an enemy
\* target, and the engine does not read it then
Responses ==
    [ok : {TRUE}, selected_hero_id : Idx \cup {NoId}, hero_name : {"named"},
     selected_skill : Skills, target_type : {"enemy"},
     teammate_target_id : {NoId}]
    \cup
    [ok : {TRUE}, selected_hero_id : Idx, hero_name : {"named"},
     selected_skill : Skills, target_type : {"teammate"},
     teammate_target_id : Idx \cup {NoId}]

\* one guess in another case than the name, one that names a hero of Team B only
Guesses == {"redguard", "Khajit"}

AttackInfos ==
    [target_position : Idx \cup {TeamSize},
     guessed_identity : Guesses,
     attacker_ap : {BaseAttackPower}]

Damages == {0, 100, 1400}

ParsedSkills ==
    [ok : {TRUE}, damage_amount : Damages, is_aoe : BOOLEAN,
     targets_lowest : BOOLEAN]

ReduceIdx(team) == {i \in DOMAIN team : Has(team[i], "reduce")}

Recoils == {CounterDamage, ExplodeDamage}

---------------------------------------------------------------------------
(* SpecManager: one TeamManagerAgent, its operations called in any order *)

NoDecision == [status |-> "None"]
NoPayload == [action |-> "None"]
NoStats == [returned |-> FALSE]

InitManager ==
    /\ active \in Side
    /\ difficulty \in IF active = "Team B" THEN ManagerDifficulties ELSE {Unscaled}
    /\ my_team = [s \in Side |-> initialize_team(s, difficulty)]
    /\ known_enemies = [s \in Side |-> <<>>]
    /\ pc = "manager"
    /\ turn_counter = 0
    /\ manager_decision = NoDecision
    /\ attack_payload = NoPayload
    /\ feedback = NoFeedback
    /\ stats = NoStats
    /\ episode = 1
    /\ results = <<>>
    /\ last = [op |-> "idle"]

MgrSelect ==
    /\ pc = "manager" /\ turn_counter < MaxOps
    /\ \E response \in Responses \cup {OracleRaised} :
        LET r == select_hero_for_turn(my_team[active], response)
        IN  /\ my_team' = [my_team EXCEPT ![active] = r.team]
            /\ last' = [op |-> "select", side |-> active, pre |-> my_team[active],
                        response |-> response, status |-> r.status]
    /\ turn_counter' = turn_counter + 1
    /\ pc' = "returned"
    /\ UNCHANGED <<known_enemies, difficulty, active, manager_decision,
                   attack_payload, feedback, stats, episode, results>>

MgrAttack ==
    /\ pc = "manager" /\ turn_counter < MaxOps
    /\ \E info \in AttackInfos, parsed \in ParsedSkills \cup {OracleRaised},
          dodge \in SUBSET ReduceIdx(my_team[active]) :
        LET r == process_incoming_attack(my_team[active], info, parsed, dodge)
        IN  /\ my_team' = [my_team EXCEPT ![active] = r.team]
            /\ last' = [op |-> "attack", side |-> active, pre |-> my_team[active],
                        attack_info |-> info, parsed |-> parsed,
                        feedback |-> r.feedback, breach |-> r.breach,
                        steps |-> r.steps]
    /\ turn_counter' = turn_counter + 1
    /\ pc' = "returned"
    /\ UNCHANGED <<known_enemies, difficulty, active, manager_decision,
                   attack_payload, feedback, stats, episode, results>>

MgrRecoil ==
    /\ pc = "manager" /\ turn_counter < MaxOps
    /\ \E id \in Idx, dmg \in Recoils :
        /\ my_team' = [my_team EXCEPT ![active] = update_hero_stats(@, id, dmg)]
        /\ last' = [op |-> "recoil", side |-> active, pre |-> my_team[active],
                    target_id |-> id, damage_amount |-> dmg]
    /\ turn_counter' = turn_counter + 1
    /\ pc' = "returned"
    /\ UNCHANGED <<known_enemies, difficulty, active, manager_decision,
                   attack_payload, feedback, stats, episode, results>>

\* the call returns to its caller, which keeps nothing of it
MgrReturn ==
    /\ pc = "returned"
    /\ pc' = "manager"
    /\ last' = [op |-> "idle"]
    /\ UNCHANGED <<my_team, known_enemies, difficulty, active, turn_counter,
                   manager_decision, attack_payload, feedback, stats,
                   episode, results>>

NextManager == MgrSelect \/ MgrAttack \/ MgrRecoil \/ MgrReturn

SpecManager == InitManager /\ [][NextManager]_vars

---------------------------------------------------------------------------
(* SpecStep: one operation of the manager on the rosters a resolution can  *)
(* find: one pass of the per-target loop of process_incoming_attack        *)
(* (lines 401-469) on one hero, one teammate skill, or one recoil          *)

\* the health of a hero when the step starts; 0 is a dead hero
StepHealths == {0, 20, BaseHealth}

\* raw_damage of the hit
StepRaws == (0 .. MaxRaw) \cup {90, 100, 1400}

\* a roster worn down by recoil, with Subtle cast once on the heroes of
\* shields
StepRoster(s, health, shields) ==
    [i \in Idx |->
        [NewHero(TeamData[s][i + 1], health[i],
                 IF i \in shields THEN BaseAttackPower + SubtleBuff
                 ELSE BaseAttackPower)
            EXCEPT !.status = IF health[i] = 0 THEN "dead" ELSE "alive",
                   !.subtle_shield = i \in shields]]

InitStep ==
    /\ active \in Side
    /\ difficulty = Unscaled
    /\ \E health \in [Idx -> StepHealths], shields \in SUBSET Idx :
        my_team = [s \in Side |->
                      IF s = active THEN StepRoster(s, health, shields)
                      ELSE initialize_team(s, difficulty)]
    /\ known_enemies = [s \in Side |-> <<>>]
    /\ pc = "step"
    /\ turn_counter = 0
    /\ manager_decision = NoDecision
    /\ attack_payload = NoPayload
    /\ feedback = NoFeedback
    /\ stats = NoStats
    /\ episode = 1
    /\ results = <<>>
    /\ last = [op |-> "idle"]

StepHit ==
    /\ pc = "step"
    /\ \E i \in Idx, raw \in StepRaws, dodged \in BOOLEAN :
        LET r == PipelineStep(my_team[active], i, raw, dodged)
        IN  /\ my_team' = [my_team EXCEPT ![active] = r.team]
            /\ last' = [op |-> "step", side |-> active, pre |-> my_team[active],
                        idx |-> i, raw |-> raw, dodged |-> dodged,
                        rec |-> r.rec, counter |-> r.counter]
    /\ pc' = "stepped"
    /\ UNCHANGED <<known_enemies, difficulty, active, turn_counter,
                   manager_decision, attack_payload, feedback, stats,
                   episode, results>>

\* the teammate-targeting responses applied to those rosters
StepResponses ==
    [ok : {TRUE}, selected_hero_id : Idx, hero_name : {"named"},
     selected_skill : {"Infight", "Subtle"}, target_type : {"teammate"},
     teammate_target_id : Idx]

\* select_hero_for_turn with an internal skill, on such a roster
StepInternal ==
    /\ pc = "step"
    /\ \E response \in StepResponses :
        LET r == select_hero_for_turn(my_team[active], response)
        IN  /\ my_team' = [my_team EXCEPT ![active] = r.team]
            /\ last' = [op |-> "select", side |-> active, pre |-> my_team[active],
                        response |-> response, status |-> r.status]
    /\ pc' = "stepped"
    /\ UNCHANGED <<known_enemies, difficulty, active, turn_counter,
                   manager_decision, attack_payload, feedback, stats,
                   episode, results>>

\* update_hero_stats with a recoil, on such a roster
StepRecoil ==
    /\ pc = "step"
    /\ \E id \in Idx, dmg \in Recoils :
        /\ my_team' = [my_team EXCEPT ![active] = update_hero_stats(@, id, dmg)]
        /\ last' = [op |-> "recoil", side |-> active, pre |-> my_team[active],
                    target_id |-> id, damage_amount |-> dmg]
    /\ pc' = "stepped"
    /\ UNCHANGED <<known_enemies, difficulty, active, turn_counter,
                   manager_decision, attack_payload, feedback, stats,
                   episode, results>>

NextStep ==
    \/ StepHit
    \/ StepInternal
    \/ StepRecoil

SpecStep == InitStep /\ [][NextStep]_vars

---------------------------------------------------------------------------
(* TeamLeadAgent *)

UnknownHealth == -1

\* update_intel that writes the name anew on every update, "unknown" unless
\* the guess was correct
update_intel_forgets(ledger, position, fb) ==
    LET old == IF position \in DOMAIN ledger THEN ledger[position]
               ELSE [name |-> "unknown", health |-> UnknownHealth, status |-> "unknown"]
        named == IF fb.has_guess /\ fb.guess_correct /\ fb.actual_identity # NONE
                 THEN [old EXCEPT !.name = fb.actual_identity]
                 ELSE [old EXCEPT !.name = "unknown"]
        new == [named EXCEPT !.health = fb.target_health, !.status = fb.target_status]
    IN  [p \in DOMAIN ledger \cup {position} |-> IF p = position THEN new ELSE ledger[p]]

\* update_intel; fb holds has_guess (the feedback of a resolution, with
\* guess_correct and actual_identity) or only target_health and target_status
update_intel(ledger, position, fb) ==
    LET old == IF position \in DOMAIN ledger THEN ledger[position]
               ELSE [name |-> "unknown", health |-> UnknownHealth, status |-> "unknown"]
        named == IF fb.has_guess /\ fb.guess_correct /\ fb.actual_identity # NONE
                 THEN [old EXCEPT !.name = fb.actual_identity] ELSE old
        new == [named EXCEPT !.health = fb.target_health, !.status = fb.target_status]
    IN  [p \in DOMAIN ledger \cup {position} |-> IF p = position THEN new ELSE ledger[p]]

DeadIntel == [has_guess |-> FALSE, target_health |-> 0, target_status |-> "dead"]

AttackIntel(fb) ==
    [has_guess |-> TRUE, guess_correct |-> fb.guess_correct,
     actual_identity |-> fb.actual_identity,
     target_health |-> fb.target_health, target_status |-> fb.target_status]

\* perform_turn lines 95-100: the target's entry, then every dead position
RECURSIVE MarkDead(_, _)
MarkDead(ledger, positions) ==
    IF positions = <<>> THEN ledger
    ELSE MarkDead(update_intel(ledger, Head(positions), DeadIntel), Tail(positions))

\* IntelAfterAttack without the loop over all_dead_positions
IntelAfterAttack_target_only(ledger, target_position, fb) ==
    update_intel(ledger, target_position, AttackIntel(fb))

IntelAfterAttack(ledger, target_position, fb) ==
    MarkDead(update_intel(ledger, target_position, AttackIntel(fb)),
             InOrder(fb.all_dead_positions))

---------------------------------------------------------------------------
(* game.py: run_game_loop and perform_turn, one step per call they make *)

\* turns of an episode the model follows
MaxTurns == 3

TurnsTaken == 2 * (turn_counter - 1) + (IF active = "Team B" THEN 1 ELSE 0)

get_total_team_health(team) ==
    LET RECURSIVE Sum(_)
        Sum(S) == IF S = {} THEN 0
                  ELSE LET i == CHOOSE x \in S : TRUE
                       IN  team[i].health + Sum(S \ {i})
    IN  Sum(DOMAIN team)

get_alive_count(team) == Cardinality(AliveIdx(team))

\* run_game_loop lines 214-240
PostGame(teams, q) ==
    LET alive_a == get_alive_count(teams["Team A"])
        alive_b == get_alive_count(teams["Team B"])
        start_hp_a == TeamSize * BaseHealth
        start_hp_b == IF q # Unscaled THEN ScaledStat(TeamSize * BaseHealth, q)
                      ELSE TeamSize * BaseHealth
    IN  [returned |-> TRUE,
         winner |-> IF alive_a > alive_b THEN "Team A"
                    ELSE IF alive_b > alive_a THEN "Team B" ELSE "Draw",
         damage_dealt_by_a |-> start_hp_b - get_total_team_health(teams["Team B"]),
         damage_dealt_by_b |-> start_hp_a - get_total_team_health(teams["Team A"])]

Snapshot == [my_team |-> my_team, known_enemies |-> known_enemies]

Init ==
    /\ difficulty \in Difficulties
    /\ my_team = [s \in Side |-> initialize_team(s, difficulty)]
    /\ known_enemies = [s \in Side |-> <<>>]
    /\ pc = "select"
    /\ active = "Team A"
    /\ turn_counter = 1
    /\ manager_decision = NoDecision
    /\ attack_payload = NoPayload
    /\ feedback = NoFeedback
    /\ stats = NoStats
    /\ episode = 1
    /\ results = <<>>
    /\ last = [op |-> "advance"]

\* RoundAdvance that gives the next turn to the side that has just played
RoundAdvance_same ==
    /\ pc = "advance"
    /\ pc' = "select"
    /\ active' = active
    /\ turn_counter' = IF active = "Team B" THEN turn_counter + 1 ELSE turn_counter
    /\ manager_decision' = NoDecision
    /\ attack_payload' = NoPayload
    /\ feedback' = NoFeedback
    /\ last' = [op |-> "advance"]
    /\ UNCHANGED <<my_team, known_enemies, difficulty, stats, episode, results>>

\* perform_turn returned CONTINUE (run_game_loop lines 190-210): the other
\* side's turn, a new round after Team B's; the locals of the turn are gone
RoundAdvance ==
    /\ pc = "advance"
    /\ pc' = "select"
    /\ active' = Other(active)
    /\ turn_counter' = IF active = "Team B" THEN turn_counter + 1 ELSE turn_counter
    /\ manager_decision' = NoDecision
    /\ attack_payload' = NoPayload
    /\ feedback' = NoFeedback
    /\ last' = [op |-> "advance"]
    /\ UNCHANGED <<my_team, known_enemies, difficulty, stats, episode,
                   results>>

\* perform_turn lines 45-59
TurnSelect(responses) ==
    /\ pc = "select" /\ TurnsTaken < MaxTurns
    /\ \E response \in responses :
        LET r == select_hero_for_turn(my_team[active], response)
        IN  /\ my_team' = [my_team EXCEPT ![active] = r.team]
            /\ manager_decision' =
                IF r.status \in {"ACTIVE", "INTERNAL ACTION"}
                THEN [status |-> r.status,
                      selected_hero_id |-> response.selected_hero_id,
                      hero_name |-> response.hero_name,
                      selected_skill |-> response.selected_skill,
                      current_ap |-> my_team[active][response.selected_hero_id].attack_power]
                ELSE [status |-> r.status]
            /\ last' = [op |-> "select", side |-> active, pre |-> my_team[active],
                        response |-> response, status |-> r.status,
                        start |-> Snapshot]
            /\ pc' = IF r.status \in {"None", "ERROR"} THEN "aborted"
                     ELSE IF r.status = "INTERNAL ACTION" THEN "advance"
                     ELSE "lead"
    /\ UNCHANGED <<known_enemies, difficulty, active, turn_counter,
                   attack_payload, feedback, stats, episode, results>>

\* get_turn_decision on DEFEAT, perform_turn lines 71-73 and the break of
\* run_game_loop, whose winner is the other side
TurnSurrender ==
    /\ pc = "lead" /\ manager_decision.status = "DEFEAT"
    /\ attack_payload' = [action |-> "SURRENDER"]
    /\ pc' = "post"
    /\ last' = [op |-> "surrender", side |-> active, winner |-> Other(active),
                start |-> last.start]
    /\ UNCHANGED <<my_team, known_enemies, difficulty, active, turn_counter,
                   manager_decision, feedback, stats, episode, results>>

\* get_turn_decision lines 92-124
TurnLead(decisions) ==
    /\ pc = "lead" /\ manager_decision.status = "ACTIVE"
    /\ \E decision \in decisions :
        LET incomplete == manager_decision.hero_name = NONE
            failed == incomplete \/ ~decision.ok
        IN  /\ attack_payload' =
                IF failed THEN NoPayload
                ELSE [action |-> "ATTACK",
                      target_position |-> decision.target_position,
                      guessed_identity |-> decision.guessed_identity,
                      attacker_ap |-> manager_decision.current_ap]
            /\ pc' = IF failed THEN "aborted" ELSE "resolve"
            /\ last' = [op |-> "lead", side |-> active, decision |-> decision,
                        start |-> last.start]
    /\ UNCHANGED <<my_team, known_enemies, difficulty, active, turn_counter,
                   manager_decision, feedback, stats, episode, results>>

\* receive_hostile_attack and perform_turn lines 77-82
TurnResolve(parses) ==
    /\ pc = "resolve"
    /\ ~AttackRaises(my_team[Other(active)], attack_payload)
    /\ \E parsed \in parses, dodge \in SUBSET ReduceIdx(my_team[Other(active)]) :
        LET r == process_incoming_attack(my_team[Other(active)], attack_payload,
                                         parsed, dodge)
        IN  /\ my_team' = [my_team EXCEPT ![Other(active)] = r.team]
            /\ feedback' = r.feedback
            /\ pc' = IF ~r.feedback.returned THEN "aborted"
                     ELSE IF r.feedback.counter_damage > 0 THEN "recoil" ELSE "intel"
            /\ last' = [op |-> "attack", side |-> Other(active),
                        pre |-> my_team[Other(active)],
                        attack_info |-> attack_payload, parsed |-> parsed,
                        feedback |-> r.feedback, breach |-> r.breach,
                        steps |-> r.steps, start |-> last.start]
    /\ UNCHANGED <<known_enemies, difficulty, active, turn_counter,
                   manager_decision, attack_payload, stats, episode, results>>

\* TurnRecoil that charges the recoil to every hero of the attacking roster
TurnRecoil_all ==
    /\ pc = "recoil"
    /\ my_team' = [my_team EXCEPT ![active] =
                      [i \in Idx |-> Damage(@[i], feedback.counter_damage)]]
    /\ pc' = "intel"
    /\ last' = [op |-> "recoil", side |-> active, pre |-> my_team[active],
                target_id |-> manager_decision.selected_hero_id,
                damage_amount |-> feedback.counter_damage, start |-> last.start]
    /\ UNCHANGED <<known_enemies, difficulty, active, turn_counter,
                   manager_decision, attack_payload, feedback, stats,
                   episode, results>>

\* perform_turn lines 85-93
TurnRecoil ==
    /\ pc = "recoil"
    /\ my_team' = [my_team EXCEPT ![active] =
                      update_hero_stats(@, manager_decision.selected_hero_id,
                                        feedback.counter_damage)]
    /\ pc' = "intel"
    /\ last' = [op |-> "recoil", side |-> active, pre |-> my_team[active],
                target_id |-> manager_decision.selected_hero_id,
                damage_amount |-> feedback.counter_damage, start |-> last.start]
    /\ UNCHANGED <<known_enemies, difficulty, active, turn_counter,
                   manager_decision, attack_payload, feedback, stats,
                   episode, results>>

\* perform_turn lines 95-110
TurnIntel ==
    /\ pc = "intel"
    /\ known_enemies' = [known_enemies EXCEPT ![active] =
                            IntelAfterAttack(@, attack_payload.target_position, feedback)]
    /\ pc' = "advance"
    /\ last' = [op |-> "intel", side |-> active, pre |-> known_enemies[active],
                start |-> last.start]
    /\ UNCHANGED <<my_team, difficulty, active, turn_counter,
                   manager_decision, attack_payload, feedback, stats,
                   episode, results>>

\* run_game_loop lines 214-240
GameOver ==
    /\ pc = "post"
    /\ stats' = PostGame(my_team, difficulty)
    /\ pc' = "done"
    /\ last' = [op |-> "post", side |-> last.side, winner |-> last.winner,
                start |-> last.start]
    /\ UNCHANGED <<my_team, known_enemies, difficulty, active, turn_counter,
                   manager_decision, attack_payload, feedback, episode,
                   results>>

\* the inputs of Spec
GameResponses ==
    [ok : {TRUE}, selected_hero_id : {0, 3, NoId}, hero_name : {"named"},
     selected_skill : Skills, target_type : {"enemy"},
     teammate_target_id : {NoId}]
    \cup
    [ok : {TRUE}, selected_hero_id : {0, 1}, hero_name : {"named"},
     selected_skill : Skills, target_type : {"teammate"},
     teammate_target_id : {0, 1, NoId}]
    \cup {OracleRaised}

GameDecisions ==
    [ok : {TRUE}, target_position : {0, 3, TeamSize},
     guessed_identity : Guesses]
    \cup {OracleRaised}

GameParses ==
    [ok : {TRUE}, damage_amount : {100, 1400}, is_aoe : BOOLEAN,
     targets_lowest : {FALSE}]
    \cup {OracleRaised}

Next ==
    \/ TurnSelect(GameResponses)
    \/ TurnSurrender
    \/ TurnLead(GameDecisions)
    \/ TurnResolve(GameParses)
    \/ TurnRecoil
    \/ TurnIntel
    \/ RoundAdvance
    \/ GameOver

Spec == Init /\ [][Next]_vars

---------------------------------------------------------------------------
(* game.py: run_multi_agent_battle_simulation, one step per episode *)

\* episodes of a simulation the model follows
NumEpisodes == 2

\* receive_hostile_attack and perform_turn line 77 when process_incoming_attack
\* raises: the exception leaves perform_turn, run_game_loop (line 190 or 200)
\* and run_multi_agent_battle_simulation (line 252)
TurnRaise ==
    /\ pc = "resolve"
    /\ AttackRaises(my_team[Other(active)], attack_payload)
    /\ pc' = "crashed"
    /\ last' = [op |-> "raise", side |-> Other(active),
                pre |-> my_team[Other(active)],
                attack_info |-> attack_payload, start |-> last.start]
    /\ UNCHANGED <<my_team, known_enemies, difficulty, active, turn_counter,
                   manager_decision, attack_payload, feedback, stats,
                   episode, results>>

\* calculate_metrics lines 121-143; the rates are wins / total_games and
\* total_damage / total_games / 1600
RECURSIVE SumOver(_, _)
SumOver(seq, key) ==
    IF seq = <<>> THEN 0
    ELSE (IF key = "a" THEN Head(seq).damage_dealt_by_a
          ELSE Head(seq).damage_dealt_by_b) + SumOver(Tail(seq), key)

calculate_metrics(rs, team_label) ==
    [total_games |-> Len(rs),
     wins |-> Cardinality({k \in DOMAIN rs : rs[k].winner = team_label}),
     total_damage |-> SumOver(rs, IF team_label = "Team A" THEN "a" ELSE "b")]

\* run_multi_agent_battle_simulation lines 250-258: run_game_loop returned,
\* its stats are kept unless None, and the loop goes to the next episode,
\* whose run_game_loop builds both teams anew
EpisodeEnd ==
    /\ pc \in {"aborted", "done"}
    /\ results' = IF stats.returned THEN Append(results, stats) ELSE results
    /\ last' = [op |-> "episode", skipped |-> ~stats.returned]
    /\ IF episode < NumEpisodes
       THEN /\ episode' = episode + 1
            /\ my_team' = [s \in Side |-> initialize_team(s, difficulty)]
            /\ known_enemies' = [s \in Side |-> <<>>]
            /\ pc' = "select"
            /\ active' = "Team A"
            /\ turn_counter' = 1
            /\ manager_decision' = NoDecision
            /\ attack_payload' = NoPayload
            /\ feedback' = NoFeedback
            /\ stats' = NoStats
       ELSE /\ pc' = "simulated"
            /\ UNCHANGED <<my_team, known_enemies, active, turn_counter,
                           manager_decision, attack_payload, feedback, stats,
                           episode>>
    /\ UNCHANGED difficulty

\* run_multi_agent_battle_simulation lines 261-270
BatchMetrics ==
    /\ pc = "simulated"
    /\ pc' = "finished"
    /\ last' = IF results = <<>> THEN [op |-> "metrics", computed |-> FALSE]
               ELSE [op |-> "metrics", computed |-> TRUE,
                     team_a |-> calculate_metrics(results, "Team A"),
                     team_b |-> calculate_metrics(results, "Team B")]
    /\ UNCHANGED <<my_team, known_enemies, difficulty, active, turn_counter,
                   manager_decision, attack_payload, feedback, stats,
                   episode, results>>

\* the inputs of SpecBatch
BatchDifficulties == {4}

BatchResponses ==
    [ok : {TRUE}, selected_hero_id : {0, 1}, hero_name : {"named"},
     selected_skill : {"Basic Attack"}, target_type : {"enemy"},
     teammate_target_id : {NoId}]
    \cup {OracleRaised}

BatchDecisions ==
    [ok : {TRUE}, target_position : {0, TeamSize},
     guessed_identity : {"redguard", NONE}]
    \cup {OracleRaised}

BatchParses ==
    [ok : {TRUE}, damage_amount : {10, 2000}, is_aoe : BOOLEAN,
     targets_lowest : {FALSE}]
    \cup {OracleRaised}

InitBatch ==
    /\ Init
    /\ difficulty \in BatchDifficulties

NextBatch ==
    \/ TurnSelect(BatchResponses)
    \/ TurnSurrender
    \/ TurnLead(BatchDecisions)
    \/ TurnResolve(BatchParses)
    \/ TurnRaise
    \/ TurnRecoil
    \/ TurnIntel
    \/ RoundAdvance
    \/ GameOver
    \/ EpisodeEnd
    \/ BatchMetrics

SpecBatch == InitBatch /\ [][NextBatch]_vars

---------------------------------------------------------------------------
(* game.py: run_game_loop without a bound on its turns.  turn_counter, which *)
(* only the log line of each round reads, is not followed, so that an        *)
(* episode that goes on forever is a cycle of states.                        *)

\* run_game_loop lines 190-210 after a CONTINUE, the round number left out
LiveAdvance ==
    /\ pc = "advance"
    /\ pc' = "select"
    /\ active' = Other(active)
    /\ manager_decision' = NoDecision
    /\ attack_payload' = NoPayload
    /\ feedback' = NoFeedback
    /\ last' = [op |-> "advance"]
    /\ UNCHANGED <<my_team, known_enemies, difficulty, turn_counter, stats,
                   episode, results>>

\* the inputs of SpecLive: well-formed answers only
LiveResponses ==
    [ok : {TRUE}, selected_hero_id : {0}, hero_name : {"named"},
     selected_skill : {"Basic Attack"}, target_type : {"enemy"},
     teammate_target_id : {NoId}]

LiveDecisions ==
    [ok : {TRUE}, target_position : {0}, guessed_identity : {"Khajit"}]

LiveParses ==
    [ok : {TRUE}, damage_amount : {0, 1400}, is_aoe : BOOLEAN,
     targets_lowest : {FALSE}]

InitLive ==
    /\ Init
    /\ difficulty = Unscaled

NextLive ==
    \/ TurnSelect(LiveResponses)
    \/ TurnSurrender
    \/ TurnLead(LiveDecisions)
    \/ TurnResolve(LiveParses)
    \/ TurnRecoil
    \/ TurnIntel
    \/ LiveAdvance
    \/ GameOver

\* the loop is one thread that always takes its next step
SpecLive == InitLive /\ [][NextLive]_vars /\ WF_vars(NextLive)

---------------------------------------------------------------------------
(* The claims.  last holds the operation that has just acted: the roster   *)
(* before it (pre), its inputs and what it returned.                       *)

Max(a, b) == IF a >= b THEN a ELSE b

\* the roster the last operation acted on, as it stands now
Post == my_team[last.side]

IsAttack == last.op = "attack" /\ last.attack_info.target_position \in Idx
AttackPos == last.attack_info.target_position
GuessCorrect == Lower(last.attack_info.guessed_identity) = Lower(last.pre[AttackPos].name)
Flipped == ~last.pre[AttackPos].revealed /\ Post[AttackPos].revealed

\* the heroes the per-target loop reached, as a target or as a mate sharing
\* a Deflect
Reached ==
    {last.steps[k].idx : k \in DOMAIN last.steps}
    \cup UNION {last.steps[k].mates : k \in DOMAIN last.steps}

\* health after the 50 global damage and its death check
AfterGlobal(hero) == IF hero.status = "alive" THEN Max(hero.health - 50, 0) ELSE hero.health

IsTeammateSkill(skill) ==
    /\ last.op = "select" /\ last.response.ok
    /\ AliveIdx(last.pre) # {}
    /\ last.response.target_type = "teammate"
    /\ last.response.selected_skill = skill
    /\ last.response.selected_hero_id \in Idx
    /\ last.response.teammate_target_id \in Idx
Actor == last.response.selected_hero_id
Mate == last.response.teammate_target_id

\* C1: between operations every hero has health >= 0, and health = 0 exactly
\* when its status is dead.
C1_HealthInvariant ==
    \A s \in Side, i \in Idx :
        /\ my_team[s][i].health >= 0
        /\ (my_team[s][i].health = 0) <=> (my_team[s][i].status = "dead")

\* C2: a side with no alive hero at its turn signals DEFEAT, nothing is
\* resolved after that, and the result of run_game_loop names the other side
\* as the winner.
C2_DefeatNamesOpponent ==
    /\ (last.op = "select" /\ AliveIdx(last.pre) = {}) => last.status = "DEFEAT"
    /\ pc \in {"post", "done"} =>
        /\ AliveIdx(my_team[last.side]) = {}
        /\ my_team = last.start.my_team
    /\ pc = "done" => stats.returned /\ stats.winner = Other(last.side)

\* C3: revealed never goes back to false; a resolution applies the 50 global
\* damage exactly when it flips the target's revealed flag, which is when the
\* guess is correct and the target was not revealed; no other hero's flag
\* changes.
C3_FlipOnly ==
    IsAttack =>
        /\ Flipped <=> (GuessCorrect /\ ~last.pre[AttackPos].revealed)
        /\ last.breach <=> Flipped
        /\ \A i \in Idx \ Reached :
            Post[i].health = IF Flipped THEN AfterGlobal(last.pre[i]) ELSE last.pre[i].health
        /\ \A i \in Idx \ {AttackPos} : Post[i].revealed = last.pre[i].revealed
C3_StaysRevealed ==
    \A s \in Side, i \in Idx : my_team[s][i].revealed => my_team'[s][i].revealed
C3_RevealOnce == []C3_FlipOnly /\ [][C3_StaysRevealed]_vars

\* C3 witness: a correct guess on a hero an earlier resolution revealed, with
\* a hero the loop did not reach keeping its health.
C3_Witness ==
    /\ IsAttack /\ GuessCorrect /\ last.pre[AttackPos].revealed
    /\ \E i \in Idx \ Reached :
        /\ last.pre[i].status = "alive"
        /\ last.pre[i].health = 350
        /\ Post[i].health = 350

\* C4: on a first correct guess every alive hero loses 50 and is death-checked
\* before the targets are determined, the direct damage comes on top of it
\* (400 - 50 - 100 = 250 for a hero whose passive and shield change no
\* damage), and a target the global damage killed takes no direct hit.
C4_GlobalThenDirect ==
    (IsAttack /\ GuessCorrect /\ ~last.pre[AttackPos].revealed) =>
        LET survivors == {i \in Idx : last.pre[i].status = "alive"
                                      /\ AfterGlobal(last.pre[i]) > 0}
            plain == /\ HeroPassive[last.pre[AttackPos].name] \subseteq {"counter", "explode"}
                     /\ ~last.pre[AttackPos].subtle_shield
        IN  /\ \A i \in Idx \ Reached :
                /\ Post[i].health = AfterGlobal(last.pre[i])
                /\ (Post[i].status = "dead") <=> (Post[i].health = 0)
            /\ {last.steps[k].idx : k \in DOMAIN last.steps} \subseteq survivors
            /\ (last.parsed.ok /\ last.parsed.is_aoe) =>
                {last.steps[k].idx : k \in DOMAIN last.steps} = survivors
            /\ (last.parsed.ok /\ ~last.parsed.is_aoe /\ ~last.parsed.targets_lowest) =>
                /\ AttackPos \notin survivors => last.steps = <<>>
                /\ AttackPos \in survivors =>
                    /\ Len(last.steps) = 1 /\ last.steps[1].idx = AttackPos
                    /\ plain =>
                        /\ Post[AttackPos].health =
                            Max(last.pre[AttackPos].health - 50 - last.parsed.damage_amount, 0)
                        /\ (Post[AttackPos].status = "dead") <=> (Post[AttackPos].health = 0)

\* C4 witness: the 400-health hero of the example ends at 250 and its three
\* mates at 350.
C4_Witness ==
    /\ IsAttack /\ GuessCorrect /\ ~last.pre[AttackPos].revealed
    /\ HeroPassive[last.pre[AttackPos].name] = {"counter"}
    /\ last.pre[AttackPos].health = 400 /\ ~last.pre[AttackPos].subtle_shield
    /\ last.parsed.ok /\ ~last.parsed.is_aoe /\ ~last.parsed.targets_lowest
    /\ last.parsed.damage_amount = 100
    /\ Post[AttackPos].health = 250
    /\ \A i \in Idx \ {AttackPos} : last.pre[i].health = 400 /\ Post[i].health = 350

\* C5: every hero the per-target loop processes is alive when its step
\* starts.
C5_TargetsAlive ==
    last.op = "attack" => \A k \in DOMAIN last.steps : last.steps[k].status = "alive"

\* C6: an attack on a position that holds a dead hero ends the turn as
\* aborted and leaves the defending roster as it was.
C6_DeadTargetRejected ==
    (IsAttack /\ last.pre[AttackPos].status = "dead") =>
        /\ ~last.feedback.returned
        /\ pc = "aborted"
        /\ Post = last.pre

\* C7: a selection that is carried out (as an internal action or as an
\* attack) names a hero that was alive when it was selected.
C7_ActorAlive ==
    (last.op = "select" /\ last.status \in {"ACTIVE", "INTERNAL ACTION"}) =>
        last.pre[last.response.selected_hero_id].status = "alive"

\* C8: Infight on an alive teammate other than the actor takes 75 from the
\* teammate's health with a death check, adds 140 to the actor's attack
\* power and changes nothing else.
C8_Infight ==
    (IsTeammateSkill("Infight") /\ Actor # Mate /\ last.pre[Mate].status = "alive") =>
        /\ last.status = "INTERNAL ACTION"
        /\ \A i \in Idx :
            Post[i] =
                IF i = Mate
                THEN [last.pre[i] EXCEPT
                        !.health = Max(@ - 75, 0),
                        !.status = IF last.pre[i].health <= 75 THEN "dead" ELSE @]
                ELSE IF i = Actor
                THEN [last.pre[i] EXCEPT !.attack_power = @ + 140]
                ELSE last.pre[i]

\* C8 witness: the actor at attack power 200 and the teammate at health 400
\* end at 340 and 325.
C8_Witness ==
    /\ IsTeammateSkill("Infight") /\ Actor # Mate
    /\ last.pre[Actor].attack_power = 200 /\ last.pre[Mate].health = 400
    /\ Post[Actor].attack_power = 340 /\ Post[Mate].health = 325

\* C9: Infight with the actor as its own target changes no field of any
\* hero of the roster.
C9_InfightSelf ==
    (IsTeammateSkill("Infight") /\ Actor = Mate) => Post = last.pre

\* C9 witness: an alive actor at 400 health and 200 attack power named
\* itself and kept both.
C9_Witness ==
    /\ IsTeammateSkill("Infight") /\ Actor = Mate
    /\ last.status = "INTERNAL ACTION"
    /\ last.pre[Actor].status = "alive"
    /\ Post[Actor].health = 400 /\ Post[Actor].attack_power = 200

\* C10: an Infight or a Subtle whose teammate target is dead changes nothing
\* in the roster.
C10_DeadMateRejected ==
    ((IsTeammateSkill("Infight") \/ IsTeammateSkill("Subtle"))
        /\ last.pre[Mate].status = "dead") =>
        Post = last.pre

\* the action-selection oracle was asked and named a hero of the roster
OracleAnswered ==
    /\ last.op = "select" /\ last.response.ok
    /\ AliveIdx(last.pre) # {}
    /\ last.response.selected_hero_id \in Idx

\* C11: a teammate-targeting response that names the actor as the target of
\* Infight, has no target, or uses a skill other than Infight and Subtle
\* ends the turn as aborted.
C11_TeammateRuleBreakAborts ==
    (/\ OracleAnswered
     /\ last.response.target_type = "teammate"
     /\ \/ last.response.selected_skill = "Infight" /\ Mate = Actor
        \/ Mate = NoId
        \/ last.response.selected_skill \notin {"Infight", "Subtle"})
    => pc = "aborted"

\* C12: an enemy-targeting response with Infight or Subtle makes
\* select_hero_for_turn return None and the turn abort; no result is
\* returned for the episode, and no roster and no ledger has changed since
\* the turn started.
C12_EnemyInternalAborts ==
    (/\ last.op = "select" /\ last.response.ok
     /\ AliveIdx(last.pre) # {}
     /\ last.response.target_type = "enemy"
     /\ last.response.selected_skill \in {"Infight", "Subtle"})
    => /\ last.status = "None"
       /\ pc = "aborted"
       /\ ~stats.returned
       /\ my_team = last.start.my_team
       /\ known_enemies = last.start.known_enemies

\* C12 witness: in Team B's turn, after Team A's attack, an alive hero was
\* named with Subtle on an enemy and the turn aborted.
C12_Witness ==
    /\ OracleAnswered /\ last.side = "Team B"
    /\ last.pre[Actor].status = "alive"
    /\ last.response.target_type = "enemy"
    /\ last.response.selected_skill = "Subtle"
    /\ known_enemies["Team A"] # <<>>
    /\ pc = "aborted"

\* C13: a turn whose response targets a teammate and is carried out ends
\* there with CONTINUE: no attack payload and no feedback exist, and the
\* other roster and both ledgers are as they were when the turn started.
C13_InternalTurnFrame ==
    (/\ OracleAnswered
     /\ last.response.target_type = "teammate"
     /\ last.response.teammate_target_id \in Idx \cup {NoId})
    => /\ pc = "advance"
       /\ attack_payload = NoPayload
       /\ feedback = NoFeedback
       /\ my_team[Other(last.side)] = last.start.my_team[Other(last.side)]
       /\ known_enemies = last.start.known_enemies

\* C13 witness: Team B's Infight changed its own roster in a turn that left
\* Team A's roster and the ledgers alone.
C13_Witness ==
    /\ IsTeammateSkill("Infight") /\ Actor # Mate
    /\ last.side = "Team B"
    /\ my_team["Team B"] # last.start.my_team["Team B"]
    /\ my_team["Team A"] = last.start.my_team["Team A"]
    /\ known_enemies["Team A"] # <<>>
    /\ known_enemies = last.start.known_enemies
    /\ pc = "advance"

\* the hero a step of SpecStep processed, as it was when the step started
StepHero == last.pre[last.idx]

\* damage_to_take of that step after Reduce and Deflect, when it reaches the
\* test of the shield
AtShield ==
    IF "reduce" \in HeroPassive[StepHero.name] /\ last.dodged THEN 0
    ELSE IF "deflect" \in HeroPassive[StepHero.name] /\ last.raw > 0
    THEN (last.raw * 3) \div 10
    ELSE last.raw

\* C14: a shielded target whose damage is nonzero at the shield step takes
\* 30% of it, truncated, and ends the hit without its shield, also when the
\* 30% is 0 or the hit kills it; a shielded target whose damage is 0 there
\* keeps its shield and its health.
C14_ShieldStep ==
    (last.op = "step" /\ StepHero.subtle_shield) =>
        LET taken == (AtShield * 3) \div 10
            left == StepHero.health - taken
            healed == "heal:" \in HeroPassive[StepHero.name] /\ left > 0 /\ taken > 0
        IN  /\ AtShield > 0 =>
                /\ ~Post[last.idx].subtle_shield
                /\ last.rec.taken = taken
                /\ Post[last.idx].health = Max(IF healed THEN left + 20 ELSE left, 0)
            /\ AtShield = 0 =>
                /\ Post[last.idx].subtle_shield
                /\ Post[last.idx].health = StepHero.health

\* C14 witness: a shielded alive hero was hit for 3, lost no health and
\* lost its shield.
C14_Witness ==
    /\ last.op = "step" /\ StepHero.subtle_shield /\ StepHero.status = "alive"
    /\ last.raw = 3 /\ AtShield = 3
    /\ Post[last.idx].health = StepHero.health
    /\ Post[last.idx].status = "alive"
    /\ ~Post[last.idx].subtle_shield

\* C15: a shielded hero whose health an operation reduced has lost its
\* shield, whatever reduced it.
C15_ShieldConsumedByAnyDamage ==
    last.op \in {"select", "attack", "recoil"} =>
        \A i \in Idx :
            (last.pre[i].subtle_shield /\ Post[i].health < last.pre[i].health)
                => ~Post[i].subtle_shield

\* C16: on a hit of D > 0 on an alive Deflect hero without shield, the damage the
\* hero takes plus the shares of its n other alive mates is D less the
\* remainders of the two truncations and of the division by n, which lose
\* at most n + 1.
C16_DeflectConservation ==
    (/\ last.op = "step" /\ last.raw > 0
     /\ StepHero.status = "alive"
     /\ "deflect" \in HeroPassive[StepHero.name]
     /\ ~StepHero.subtle_shield)
    => LET n == Cardinality({j \in Idx \ {last.idx} : last.pre[j].status = "alive"})
           assigned == last.rec.taken + n * last.rec.share
       IN  /\ last.rec.mates = {j \in Idx \ {last.idx} : last.pre[j].status = "alive"}
           /\ assigned <= last.raw
           /\ last.raw - assigned <= n + 1

\* C17: the feedback of a resolution names the target's identity exactly
\* when the guess is correct and the target was not revealed before it.
C17_IdentityOnFirstCorrectGuess ==
    (IsAttack /\ last.feedback.returned) =>
        (last.feedback.actual_identity # NONE
            <=> (GuessCorrect /\ ~last.pre[AttackPos].revealed))

\* C18: the dead positions of the feedback are exactly the positions that
\* were alive before the resolution and are dead after it.
C18_NewlyDeadOnly ==
    (IsAttack /\ last.feedback.returned) =>
        last.feedback.all_dead_positions =
            {i \in Idx : last.pre[i].status = "alive" /\ Post[i].status = "dead"}

\* C19: an attack on a position outside the defending roster returns no
\* feedback, the turn is aborted, and both rosters and both ledgers are as
\* they were before the call and when the turn started.
C19_InvalidTargetAborts ==
    (last.op = "attack" /\ last.attack_info.target_position \notin Idx) =>
        /\ ~last.feedback.returned
        /\ pc = "aborted"
        /\ Post = last.pre
        /\ my_team = last.start.my_team
        /\ known_enemies = last.start.known_enemies

\* C19 witness: in Team B's turn, after Team A's attack had changed Team B's
\* roster and Team A's ledger, Team B attacked position 4 and the turn aborted.
C19_Witness ==
    /\ last.op = "attack" /\ last.side = "Team A"
    /\ last.attack_info.target_position = TeamSize
    /\ known_enemies["Team A"] # <<>>
    /\ \E i \in Idx : my_team["Team B"][i].health < ScaledStat(BaseHealth, difficulty)
    /\ pc = "aborted"

\* C20: no failure inside an episode ends the simulation: it never stops on
\* an exception, and when it has finished it has run every episode and
\* computed the metrics over the episodes that returned their stats.
C20_FailureSkipsEpisodeOnly ==
    /\ pc # "crashed"
    /\ pc = "finished" =>
        /\ episode = NumEpisodes
        /\ last.computed = (results # <<>>)
        /\ last.computed => last.team_a.total_games = Len(results)

\* one step of an episode, as C21 allows it
TurnStep ==
    \* the side changes only between a finished turn and the next one
    /\ active' # active => (pc = "advance" /\ pc' = "select")
    \* a turn starts only when the previous one has finished, and it is the
    \* other side's
    /\ (pc' = "select" /\ pc # "select") =>
            (pc = "advance" /\ active' = Other(active))
    \* a turn is finished after an internal skill or after the intel update
    \* that follows resolution and recoil
    /\ pc' = "advance" =>
            \/ last'.op = "select" /\ last'.status = "INTERNAL ACTION"
            \/ last'.op = "intel" /\ last.op \in {"attack", "recoil"}
    \* an internal skill ends the turn: no resolution follows it
    /\ (last'.op = "select" /\ last'.status = "INTERNAL ACTION") => pc' = "advance"
    \* a resolution is the only one of its turn, and no internal skill came
    \* before it: the rosters are those of the start of the turn
    /\ last'.op = "attack" => (last.op = "lead" /\ my_team = last.start.my_team)
    /\ last'.op = "recoil" => last.op = "attack"

\* C21: an episode starts with Team A's turn, the sides alternate, a turn
\* starts only when the previous one has finished (resolution, recoil and
\* intel update included), and a turn performs at most one internal skill or
\* one resolution.
C21_TurnsAlternate ==
    /\ active = "Team A" /\ pc = "select"
    /\ [][TurnStep]_vars

\* C21 witness: Team A starts its second turn after Team B's turn, both
\* sides having attacked.
C21_Witness ==
    /\ pc = "select" /\ active = "Team A" /\ turn_counter = 2
    /\ known_enemies["Team A"] # <<>>
    /\ known_enemies["Team B"] # <<>>

\* one step, seen from the entry of position p in the ledger of side s
EntryRefined(s, p) ==
    LET old == known_enemies[s][p]
        new == known_enemies'[s][p]
    IN  /\ p \in DOMAIN known_enemies'[s]
        /\ old.name # "unknown" => new.name = old.name
        /\ old.health # UnknownHealth => new.health # UnknownHealth
        /\ old.status = "dead" => (new.status = "dead" /\ new.health = 0)

\* C22: in every step of an episode every entry of both ledgers stays, keeps
\* a confirmed identity, keeps a known health known, and stays dead with
\* health 0 once it is dead.
C22_LedgerOnlyRefines ==
    [][\A s \in Side : \A p \in DOMAIN known_enemies[s] : EntryRefined(s, p)]_vars

\* C22 witness: the intel update of an attack on a position whose entry was
\* already dead with a confirmed identity.
C22_Witness ==
    /\ last.op = "intel"
    /\ attack_payload.target_position \in DOMAIN last.pre
    /\ last.pre[attack_payload.target_position].status = "dead"
    /\ last.pre[attack_payload.target_position].name # "unknown"
    /\ known_enemies[last.side][attack_payload.target_position].status = "dead"

\* C23: the metrics computed over a non-empty list of results have, for each
\* side, wins between 0 and the number of games, the wins of both sides
\* together at most the number of games, and a damage total that is not
\* negative, no episode reporting a negative damage dealt.
C23_MetricsBounds ==
    (last.op = "metrics" /\ last.computed) =>
        /\ last.team_a.total_games = Len(results) /\ Len(results) > 0
        /\ last.team_a.wins \in 0 .. Len(results)
        /\ last.team_b.wins \in 0 .. Len(results)
        /\ last.team_a.wins + last.team_b.wins <= Len(results)
        /\ last.team_a.total_damage >= 0
        /\ last.team_b.total_damage >= 0
        /\ \A k \in DOMAIN results :
                results[k].damage_dealt_by_a >= 0 /\ results[k].damage_dealt_by_b >= 0

\* C24: when an episode is over, the damage reported for each side is the
\* total health its opponent's heroes were built with, scaling included,
\* less the total health they have now.
C24_StartTotalIsScaledSum ==
    last.op = "post" =>
        /\ stats.damage_dealt_by_a =
             get_total_team_health(initialize_team("Team B", difficulty))
                - get_total_team_health(my_team["Team B"])
        /\ stats.damage_dealt_by_b =
             get_total_team_health(initialize_team("Team A", difficulty))
                - get_total_team_health(my_team["Team A"])

\* C25: no operation on a roster gives a dead hero the status alive or a
\* health above 0.
C25_DeadStaysDead ==
    [][\A s \in Side, i \in Idx :
          my_team[s][i].status = "dead" =>
              (my_team'[s][i].status = "dead" /\ my_team'[s][i].health <= 0)]_vars

\* C25 witness: a dead hero with the Heal passive was reached by a hit of 1
\* to 10 and is dead with health 0 after it.
C25_Witness ==
    /\ last.op = "step" /\ StepHero.status = "dead"
    /\ "heal:" \in HeroPassive[StepHero.name]
    /\ last.raw \in 1 .. 10
    /\ Post[last.idx].status = "dead" /\ Post[last.idx].health = 0

\* the turn has sent its attack: it is at or after the resolution
InAttackTurn == last.op \in {"attack", "recoil", "intel"}

\* C26: from the resolution of an attack turn to its end, the defender's
\* ledger, every hero of the attacking roster but the acting one, and the
\* acting hero's attack power, shield and revealed flag are as they were
\* when the turn started.
C26_AttackTurnFrame ==
    InAttackTurn =>
        LET actor == manager_decision.selected_hero_id
            now == my_team[active]
            before == last.start.my_team[active]
        IN  /\ known_enemies[Other(active)] = last.start.known_enemies[Other(active)]
            /\ \A i \in Idx \ {actor} : now[i] = before[i]
            /\ now[actor].attack_power = before[actor].attack_power
            /\ now[actor].subtle_shield = before[actor].subtle_shield
            /\ now[actor].revealed = before[actor].revealed
            /\ now[actor].name = before[actor].name

\* C26 witness: an attack turn has ended after a recoil that cost the acting
\* hero health, having changed the defending roster and the attacker's
\* ledger.
C26_Witness ==
    /\ last.op = "intel" /\ pc = "advance"
    /\ my_team[active][manager_decision.selected_hero_id].health
         < last.start.my_team[active][manager_decision.selected_hero_id].health
    /\ my_team[Other(active)] # last.start.my_team[Other(active)]
    /\ known_enemies[active] # last.start.known_enemies[active]

\* C27: with well-formed oracle answers, every episode eventually is over
\* or aborted.
C27_EpisodeEnds == <>(pc \in {"done", "aborted"})

\* the health of hero i when the targets are decided, after the identity
\* check and its global damage, and the heroes alive then
HealthAtTargeting(i) ==
    IF last.breach THEN AfterGlobal(last.pre[i]) ELSE last.pre[i].health
AliveAtTargeting ==
    {i \in Idx : last.pre[i].status = "alive" /\ (last.breach => last.pre[i].health > GlobalDamage)}

\* the targets C28 gives
ExpectedTargets ==
    IF last.parsed.is_aoe THEN AliveAtTargeting
    ELSE IF last.parsed.targets_lowest
    THEN {i \in AliveAtTargeting :
            \A j \in AliveAtTargeting :
                \/ HealthAtTargeting(i) < HealthAtTargeting(j)
                \/ HealthAtTargeting(i) = HealthAtTargeting(j) /\ i <= j}
    ELSE {AttackPos} \cap AliveAtTargeting

\* C28: the heroes a resolution processes are, each once, all the heroes
\* alive after the identity check for an AOE; otherwise for a lowest-health
\* skill the alive hero of minimum health, the lowest position on a tie,
\* whatever the addressed position; otherwise the addressed hero if alive,
\* none if not.
C28_TargetPriority ==
    (IsAttack /\ last.parsed.ok) =>
        /\ {last.steps[k].idx : k \in DOMAIN last.steps} = ExpectedTargets
        /\ Len(last.steps) = Cardinality(ExpectedTargets)
        /\ ~last.parsed.is_aoe => Len(last.steps) <= 1

\* C28 witness: after an earlier operation, a lowest-health skill addressed
\* to one hero hit another one, of lower position than a hero of the same
\* health.
C28_Witness ==
    /\ IsAttack /\ last.parsed.ok /\ turn_counter = 2
    /\ ~last.parsed.is_aoe /\ last.parsed.targets_lowest
    /\ Len(last.steps) = 1
    /\ last.steps[1].idx # AttackPos
    /\ \E j \in AliveAtTargeting :
            /\ j > last.steps[1].idx
            /\ HealthAtTargeting(j) = HealthAtTargeting(last.steps[1].idx)
    /\ \E j \in AliveAtTargeting :
            HealthAtTargeting(j) > HealthAtTargeting(last.steps[1].idx)

\* the other alive teammates of the hero of the step, when it starts
StepMates == {j \in Idx \ {last.idx} : last.pre[j].status = "alive"}

\* C29: a hit of D > 0 on an alive Deflect hero without shield that has
\* n >= 1 other alive teammates costs the hero floor(30% of D), added to its
\* accumulated_damage, and costs each of those teammates
\* floor(floor(70% of D) / n), with a death check; 30 and 35 each for D = 100
\* and n = 2.
C29_DeflectShares ==
    (/\ last.op = "step" /\ last.raw > 0
     /\ StepHero.status = "alive"
     /\ "deflect" \in HeroPassive[StepHero.name]
     /\ ~StepHero.subtle_shield
     /\ StepMates # {})
    => LET n == Cardinality(StepMates)
           kept == (last.raw * 3) \div 10
           share == ((last.raw * 7) \div 10) \div n
       IN  /\ Post[last.idx].health = Max(StepHero.health - kept, 0)
           /\ Post[last.idx].accumulated_damage = StepHero.accumulated_damage + kept
           /\ \A j \in StepMates :
                /\ Post[j].health = Max(last.pre[j].health - share, 0)
                /\ Post[j].status = IF last.pre[j].health - share <= 0
                                    THEN "dead" ELSE "alive"
           /\ (last.raw = 100 /\ n = 2) => (kept = 30 /\ share = 35)

\* C30: a hit of D > 0 on an alive hero with Deflect and a shield costs the
\* hero 30% of the 30% Deflect leaves it (9 for D = 100), which is what its
\* accumulated_damage grows by, while each other alive teammate takes its
\* share of the 70% of D, as without the shield.
C30_DeflectThenShield ==
    (/\ last.op = "step" /\ last.raw > 0
     /\ StepHero.status = "alive"
     /\ "deflect" \in HeroPassive[StepHero.name]
     /\ StepHero.subtle_shield)
    => LET n == Cardinality(StepMates)
           kept == (last.raw * 3) \div 10
           cost == (kept * 3) \div 10
           share == IF n > 0 THEN Trunc070(last.raw) \div n ELSE 0
       IN  /\ Post[last.idx].health = Max(StepHero.health - cost, 0)
           /\ Post[last.idx].accumulated_damage = StepHero.accumulated_damage + cost
           /\ kept > 0 => ~Post[last.idx].subtle_shield
           /\ \A j \in StepMates :
                Post[j].health = Max(last.pre[j].health - share, 0)
           /\ last.raw = 100 => cost = 9

\* C30 witness: a shielded Deflect hero of 400 health with two other alive
\* teammates of 400 was hit for 100: it has 391 and no shield, they have 365.
C30_Witness ==
    /\ last.op = "step" /\ last.raw = 100
    /\ "deflect" \in HeroPassive[StepHero.name]
    /\ StepHero.subtle_shield /\ StepHero.health = BaseHealth
    /\ Cardinality(StepMates) = 2
    /\ \A j \in StepMates : last.pre[j].health = BaseHealth /\ Post[j].health = 365
    /\ Post[last.idx].health = 391
    /\ ~Post[last.idx].subtle_shield

\* C31: every Deflect hero has accumulated_damage < buff_threshold, and the
\* number of buffs it was granted, which is the number of 200-steps its
\* buff_threshold has moved, equals floor(accumulated_damage / 200).
C31_DeflectBuffsKeepUp ==
    \A s \in Side : \A i \in DOMAIN my_team[s] :
        Has(my_team[s][i], "deflect")
        => /\ my_team[s][i].accumulated_damage < my_team[s][i].buff_threshold
           /\ (my_team[s][i].buff_threshold - FirstBuffThreshold) \div ThresholdStep
                = my_team[s][i].accumulated_damage \div ThresholdStep

\* C32: the step of a target with the Counter passive adds 30 to the counter
\* damage exactly when another hero of its roster is alive with health
\* below 120 when the step starts, whatever the target itself takes: nothing
\* because of its shield, or the hit that kills it.
C32_CounterOnWeakMate ==
    (last.op = "step" /\ "counter" \in HeroPassive[StepHero.name])
    => /\ last.counter =
            IF \E j \in StepMates : last.pre[j].health < CounterHealthLimit
            THEN 30 ELSE 0
       /\ last.rec.countered = (last.counter = 30)

\* C32 witness: a Counter hero with a teammate alive at 20 was killed by the
\* hit, and 30 was added.
C32_Witness ==
    /\ last.op = "step" /\ "counter" \in HeroPassive[StepHero.name]
    /\ StepHero.status = "alive"
    /\ \E j \in StepMates : last.pre[j].health = 20
    /\ last.rec.taken > 0 /\ Post[last.idx].status = "dead"
    /\ last.counter = 30

\* C33: the step of an alive target with the Explode passive that took
\* nonzero damage adds 40 to the counter damage, also when the hit leaves it
\* with no health, and raises its attack power by 15 exactly when the health
\* the hit leaves it is strictly between 0 and 120.
C33_ExplodeOnDamage ==
    (/\ last.op = "step" /\ "explode" \in HeroPassive[StepHero.name]
     /\ StepHero.status = "alive" /\ last.rec.taken > 0)
    => LET left == StepHero.health - last.rec.taken
       IN  /\ last.counter = 40
           /\ Post[last.idx].attack_power =
                StepHero.attack_power + (IF 0 < left /\ left < 120 THEN 15 ELSE 0)

\* what C34 allows a step of an attack turn to do about the recoil
RecoilStep ==
    LET actor == manager_decision.selected_hero_id
        left == my_team[active][actor].health - feedback.counter_damage
    IN  /\ (pc = "resolve" /\ pc' \in {"recoil", "intel"})
            => /\ (pc' = "recoil") = (feedback'.counter_damage > 0)
               /\ my_team'[active] = my_team[active]
        /\ pc = "recoil"
            => /\ feedback.counter_damage > 0
               /\ pc' = "intel"
               /\ my_team' = [my_team EXCEPT ![active][actor] =
                    [@ EXCEPT !.health = IF left > 0 THEN left ELSE 0,
                              !.status = IF left > 0 THEN @ ELSE "dead"]]
               /\ known_enemies' = known_enemies
               /\ known_enemies = last.start.known_enemies
        /\ pc = "intel" => my_team' = my_team

\* C34: the recoil is applied exactly when the returned counter_damage is
\* above 0, to the acting hero only: its health drops by the whole
\* counter_damage, floored at 0 with the death check, every other field of
\* it (its shield among them) and every other hero stay as they are, and the
\* attacker's ledger is updated only afterwards.
C34_RecoilIsRaw == [][RecoilStep]_vars

\* C34 witness: a recoil has been charged to an alive acting hero that holds
\* a shield: it lost the whole counter_damage and kept the shield.
C34_Witness ==
    /\ last.op = "recoil" /\ pc = "intel"
    /\ last.pre[last.target_id].status = "alive"
    /\ last.pre[last.target_id].subtle_shield
    /\ my_team[active][last.target_id].subtle_shield
    /\ my_team[active][last.target_id].health
         = last.pre[last.target_id].health - feedback.counter_damage
    /\ feedback.counter_damage > 0

\* C35: in every state, an entry of a side's ledger that holds a name holds
\* the name of the opponent's hero at that position, and an entry marked
\* dead stands for a hero that is dead and records health 0; when an attack
\* turn has completed, every dead hero of the defending roster is marked
\* dead in the attacker's ledger.
C35_LedgerSound ==
    /\ \A s \in Side : \A p \in DOMAIN known_enemies[s] :
        /\ p \in DOMAIN my_team[Other(s)]
        /\ known_enemies[s][p].name # "unknown"
            => known_enemies[s][p].name = my_team[Other(s)][p].name
        /\ known_enemies[s][p].status = "dead"
            => /\ my_team[Other(s)][p].status = "dead"
               /\ my_team[Other(s)][p].health = 0
               /\ known_enemies[s][p].health = 0
    /\ (last.op = "intel" /\ pc = "advance")
        => \A i \in Idx :
            my_team[Other(active)][i].status = "dead"
            => /\ i \in DOMAIN known_enemies[active]
               /\ known_enemies[active][i].status = "dead"

\* C35 witness: an attack turn has completed that confirmed the identity of
\* its target and left dead a defending hero that was not the target; the
\* attacker's ledger holds the name and marks that hero dead.
C35_Witness ==
    /\ last.op = "intel" /\ pc = "advance"
    /\ feedback.guess_correct
    /\ known_enemies[active][attack_payload.target_position].name
         = my_team[Other(active)][attack_payload.target_position].name
    /\ \E i \in Idx \ {attack_payload.target_position} :
        /\ my_team[Other(active)][i].status = "dead"
        /\ known_enemies[active][i].status = "dead"
        /\ known_enemies[active][i].health = 0

\* what C36 allows a step of a turn to do about the surrender
SurrenderStep ==
    /\ pc = "select"
        => LET none == AliveIdx(my_team[active]) = {}
           IN  /\ none = (manager_decision'.status = "DEFEAT")
               /\ none => pc' = "lead" /\ my_team' = my_team
               /\ manager_decision'.status = "INTERNAL ACTION" => ~none
    /\ pc = "lead"
        => LET none == AliveIdx(last.start.my_team[active]) = {}
           IN  /\ (pc' = "post") = none
               /\ (pc' = "post") = (attack_payload'.action = "SURRENDER")
               /\ (pc' = "post") = (manager_decision.status = "DEFEAT")
               /\ attack_payload'.action = "ATTACK" => ~none
    /\ pc' = "post" => pc = "lead" /\ my_team' = my_team

\* C36: a turn ends the game exactly when the acting roster has no alive
\* hero when the turn starts: the surrender comes from the manager's DEFEAT
\* only and never while a hero of the acting side is alive, and a side
\* without alive hero neither attacks nor uses an internal skill.
C36_SurrenderIffNoneAlive == [][SurrenderStep]_vars

\* C36 witness: Team B, whose heroes all died in Team A's turn, has
\* surrendered in its own.
C36_Witness ==
    /\ last.op = "surrender" /\ pc = "post" /\ active = "Team B"
    /\ AliveIdx(last.start.my_team["Team B"]) = {}
    /\ manager_decision.status = "DEFEAT"
    /\ attack_payload.action = "SURRENDER"
    /\ \E i \in Idx : my_team["Team A"][i].status = "alive"

====
